---- MODULE Spec2Model ----
(***************************************************************************)
(* Model of src/uscsl.py, the Streamlit page "USC Builds Termination Risk  *)
(* What-If Simulator".                                                      *)
(*                                                                          *)
(* Units.  attendance_ratio is held in hundredths (0.70 is 70), as the      *)
(* slider moves in steps of 0.01.  Probabilities are held in thousandths    *)
(* (0.45 is 450).  Hours, weeks and days are whole numbers (slider steps    *)
(* of 1 and 1.0).                                                           *)
(***************************************************************************)
EXTENDS Integers, Sequences, FiniteSets, TLC

VARIABLES
    modelFile,   \* os.path.exists(MODEL_PATH)
    schemaFile,  \* the schema file: whether it exists and its "all_cols"
    cache,       \* the st.cache_resource entry of load_model_and_schema
    lock,        \* holder of the cache's compute lock, 0 when free
    loads,       \* how many times the body of load_model_and_schema returned
    pc,          \* per session: position of its script run
    btn,         \* per session: st.button("Predict Risk") of this run
    missed,      \* per session: this run's first cache lookup missed
    handle,      \* per session: (model, schema) bound at line 37
    inputs,      \* per session: the five slider values of this run
    row,         \* per session: the dict `row` of this run
    result,      \* per session: what the button handler displayed
    err,         \* per session: the st.error text of load_model_and_schema
    predicted,   \* per session: model.predict_proba was called in this run
    fn_pc,       \* harness for the two helper functions
    fn_prob,
    fn_conf,
    fn_args,
    fn_drivers

vars == <<modelFile, schemaFile, cache, lock, loads, pc, btn, missed, handle,
          inputs, row, result, err, predicted,
          fn_pc, fn_prob, fn_conf, fn_args, fn_drivers>>

cycleVars == <<modelFile, schemaFile, cache, lock, loads, pc, btn, missed,
               handle, inputs, row, result, err, predicted>>

fnVars == <<fn_pc, fn_prob, fn_conf, fn_args, fn_drivers>>

(***************************************************************************)
(* Bounds                                                                   *)
(***************************************************************************)
NumSessions == 2

Sessions == 1..NumSessions

Range(f) == {f[x] : x \in DOMAIN f}

(***************************************************************************)
(* Program constants                                                        *)
(***************************************************************************)
DEFAULT_TRADE == "CARP"

DEFAULT_DEPT == "FIELD"

FixedCols == {"attendance_ratio_lkbk", "avg_weekly_hours_lkbk",
              "zero_weeks_lkbk", "gap_days_since_work",
              "nonpaid_abs_hours_lkbk"}

RoleCols == {"Trade", "Dept"}

MkInput(a, h, z, g, n) ==
    [attendance_ratio |-> a, avg_weekly_hours |-> h, zero_weeks |-> z,
     gap_days |-> g, nonpaid_abs |-> n]

profile_options ==
    [Custom     |-> MkInput(90, 40, 0, 0, 0),
     Stable     |-> MkInput(98, 40, 0, 0, 4),
     Emerging   |-> MkInput(75, 32, 2, 7, 2),
     HighRisk   |-> MkInput(55, 25, 4, 21, 0)]

\* Messages of get_driver_messages
MSG_ATT_LOW == "Low attendance ratio compared to expected hours."

MSG_ATT_STRONG == "Consistently meeting expected hours (strong attendance)."

MSG_HRS_FEWER == "Working substantially fewer hours than a typical full-time worker."

MSG_HRS_HEALTHY == "Weekly hours are in a healthy full-time range."

MSG_ZW_NONE == "No zero-hour weeks recorded, indicating steady engagement."

MSG_ZW_SEVERAL == "Several zero-hour weeks, which often precede termination."

MSG_ZW_SOME == "Some gaps (zero-hour weeks), but not extreme."

MSG_GAP_NONE == "No current gap since last worked."

MSG_GAP_LONG == "Long gap since last worked, a strong signal of disengagement."

MSG_ABS_NONE == "No unpaid absence recorded."

MSG_ABS_HIGH == "High unpaid absence hours, which may reflect instability or issues."

MSG_LEAVE == "Prediction: **Likely to Leave / Terminate**"

MSG_STAY == "Prediction: **Likely to Stay**"

ERR_MODEL == "Model not found"

ERR_SCHEMA == "Schema not found"

(***************************************************************************)
(* Helper: confidence label (lines 200-209)                                 *)
(***************************************************************************)
get_confidence_label_medium_first(prob) ==
    IF 350 <= prob /\ prob <= 650 THEN "Medium"
    ELSE IF 450 <= prob /\ prob <= 550 THEN "Low"
    ELSE "High"

get_confidence_label(prob) ==
    IF 450 <= prob /\ prob <= 550 THEN "Low"
    ELSE IF 350 <= prob /\ prob <= 650 THEN "Medium"
    ELSE "High"

(***************************************************************************)
(* Helper: driver messages (lines 212-257).  Each block of the function     *)
(* appends at most one string to `drivers`; a block is modelled as the      *)
(* sequence it appends.                                                     *)
(***************************************************************************)
attendance_rule(attendance_ratio) ==
    IF attendance_ratio < 70 THEN <<MSG_ATT_LOW>>
    ELSE IF attendance_ratio > 95 THEN <<MSG_ATT_STRONG>>
    ELSE <<>>

hours_rule_closed(avg_weekly_hours) ==
    IF avg_weekly_hours <= 32 THEN <<MSG_HRS_FEWER>>
    ELSE IF 35 <= avg_weekly_hours /\ avg_weekly_hours <= 45 THEN <<MSG_HRS_HEALTHY>>
    ELSE <<>>

hours_rule(avg_weekly_hours) ==
    IF avg_weekly_hours < 32 THEN <<MSG_HRS_FEWER>>
    ELSE IF 35 <= avg_weekly_hours /\ avg_weekly_hours <= 45 THEN <<MSG_HRS_HEALTHY>>
    ELSE <<>>

zero_weeks_rule_no_else(zero_weeks) ==
    IF zero_weeks = 0 THEN <<MSG_ZW_NONE>>
    ELSE IF zero_weeks >= 3 THEN <<MSG_ZW_SEVERAL>>
    ELSE <<>>

zero_weeks_rule(zero_weeks) ==
    IF zero_weeks = 0 THEN <<MSG_ZW_NONE>>
    ELSE IF zero_weeks >= 3 THEN <<MSG_ZW_SEVERAL>>
    ELSE <<MSG_ZW_SOME>>

gap_days_rule_inclusive(gap_days) ==
    IF gap_days = 0 THEN <<MSG_GAP_NONE>>
    ELSE IF gap_days >= 21 THEN <<MSG_GAP_LONG>>
    ELSE <<>>

gap_days_rule(gap_days) ==
    IF gap_days = 0 THEN <<MSG_GAP_NONE>>
    ELSE IF gap_days > 21 THEN <<MSG_GAP_LONG>>
    ELSE <<>>

nonpaid_abs_rule(nonpaid_abs) ==
    IF nonpaid_abs = 0 THEN <<MSG_ABS_NONE>>
    ELSE IF nonpaid_abs > 20 THEN <<MSG_ABS_HIGH>>
    ELSE <<>>

get_driver_messages(attendance_ratio, avg_weekly_hours, zero_weeks, gap_days, nonpaid_abs) ==
    attendance_rule(attendance_ratio)
        \o hours_rule(avg_weekly_hours)
        \o zero_weeks_rule(zero_weeks)
        \o gap_days_rule(gap_days)
        \o nonpaid_abs_rule(nonpaid_abs)

(***************************************************************************)
(* Feature row (lines 182-193)                                              *)
(***************************************************************************)
\* {c: 0 for c in ALL_COLS}
ZeroRow(ALL_COLS) == [c \in Range(ALL_COLS) |-> 0]

\* the dict literal passed to row.update
RowUpdate(I) ==
    [k \in FixedCols \cup RoleCols |->
        CASE k = "attendance_ratio_lkbk"  -> I.attendance_ratio
          [] k = "avg_weekly_hours_lkbk"  -> I.avg_weekly_hours
          [] k = "zero_weeks_lkbk"        -> I.zero_weeks
          [] k = "gap_days_since_work"    -> I.gap_days
          [] k = "nonpaid_abs_hours_lkbk" -> I.nonpaid_abs
          [] k = "Trade"                  -> DEFAULT_TRADE
          [] k = "Dept"                   -> DEFAULT_DEPT]

\* dict.update restricted to the keys the dict already has
DictUpdate_existing_only(d, u) ==
    [k \in DOMAIN d |-> IF k \in DOMAIN u THEN u[k] ELSE d[k]]

\* dict.update: every key of u is set, present in d or not
DictUpdate(d, u) ==
    [k \in DOMAIN d \cup DOMAIN u |-> IF k \in DOMAIN u THEN u[k] ELSE d[k]]

AssembleRow(ALL_COLS, I) == DictUpdate(ZeroRow(ALL_COLS), RowUpdate(I))

(***************************************************************************)
(* Button handler (lines 263-298)                                           *)
(***************************************************************************)
predicted_leave_strict(risk) == IF risk > 500 THEN 1 ELSE 0

predicted_leave(risk) == IF risk >= 500 THEN 1 ELSE 0

NoResult ==
    [shown |-> FALSE, risk |-> 0, predicted_leave |-> 0, confidence |-> "",
     label |-> "", drivers |-> <<>>]

PredictionResult(risk, I) ==
    [shown |-> TRUE,
     risk |-> risk,
     predicted_leave |-> predicted_leave(risk),
     confidence |-> get_confidence_label(risk),
     label |-> IF predicted_leave(risk) = 1 THEN MSG_LEAVE ELSE MSG_STAY,
     drivers |-> get_driver_messages(I.attendance_ratio, I.avg_weekly_hours,
                                     I.zero_weeks, I.gap_days, I.nonpaid_abs)]

(***************************************************************************)
(* Render cycles.  Every user interaction reruns the script top to bottom   *)
(* in the interacting session; sessions share only the resource cache.      *)
(***************************************************************************)
\* Contents of feature_schema.json that deployments may carry
Schemas ==
    { <<"attendance_ratio_lkbk", "avg_weekly_hours_lkbk", "zero_weeks_lkbk",
        "gap_days_since_work", "nonpaid_abs_hours_lkbk", "Trade", "Dept",
        "tenure_days">>,
      <<"attendance_ratio_lkbk", "avg_weekly_hours_lkbk", "zero_weeks_lkbk",
        "gap_days_since_work", "nonpaid_abs_hours_lkbk", "Trade">>,
      <<"tenure_days", "nonpaid_abs_hours_lkbk", "gap_days_since_work",
        "zero_weeks_lkbk", "avg_weekly_hours_lkbk", "attendance_ratio_lkbk",
        "overtime_hours_lkbk">>,
      <<"Dept", "overtime_hours_lkbk", "zero_weeks_lkbk",
        "attendance_ratio_lkbk">> }

\* Slider states a run may read: the four profiles' defaults and the two
\* ends of every slider
InputStates ==
    Range(profile_options) \cup {MkInput(30, 20, 6, 45, 40), MkInput(100, 50, 1, 1, 1)}

\* Positive-class probabilities the classifier may return
RiskVals == {200, 400, 499, 500, 501, 990}

NoFile == [exists |-> FALSE, all_cols |-> <<>>]

NoCache == [valid |-> FALSE, obj |-> 0, all_cols |-> <<>>]

NoRow == <<>>

NoInput == MkInput(0, 0, 0, 0, 0)

Init ==
    /\ modelFile \in BOOLEAN
    /\ schemaFile \in {NoFile} \cup {[exists |-> TRUE, all_cols |-> S] : S \in Schemas}
    /\ cache = NoCache
    /\ lock = 0
    /\ loads = 0
    /\ pc = [s \in Sessions |-> "idle"]
    /\ btn = [s \in Sessions |-> FALSE]
    /\ missed = [s \in Sessions |-> FALSE]
    /\ handle = [s \in Sessions |-> NoCache]
    /\ inputs = [s \in Sessions |-> NoInput]
    /\ row = [s \in Sessions |-> NoRow]
    /\ result = [s \in Sessions |-> NoResult]
    /\ err = [s \in Sessions |-> ""]
    /\ predicted = [s \in Sessions |-> FALSE]
    /\ fn_pc = "off"
    /\ fn_prob = 0
    /\ fn_conf = ""
    /\ fn_args = NoInput
    /\ fn_drivers = <<>>

\* The operator saves termination_model.joblib ("Train/save it first.")
SaveModelFile ==
    /\ ~modelFile
    /\ modelFile' = TRUE
    /\ UNCHANGED <<schemaFile, cache, lock, loads, pc, btn, missed, handle,
                   inputs, row, result, err, predicted, fnVars>>

\* The operator saves feature_schema.json ("Save feature_schema.json first.")
SaveSchemaFile ==
    /\ ~schemaFile.exists
    /\ \E S \in Schemas : schemaFile' = [exists |-> TRUE, all_cols |-> S]
    /\ UNCHANGED <<modelFile, cache, lock, loads, pc, btn, missed, handle,
                   inputs, row, result, err, predicted, fnVars>>

\* A user interaction starts a rerun of the script in session s; the button
\* is pressed in this run or not.  The run reaches line 37.
StartCycle(s) ==
    /\ pc[s] \in {"idle", "done", "stopped"}
    /\ pc' = [pc EXCEPT ![s] = "load"]
    /\ \E b \in BOOLEAN : btn' = [btn EXCEPT ![s] = b]
    /\ missed' = [missed EXCEPT ![s] = FALSE]
    /\ handle' = [handle EXCEPT ![s] = NoCache]
    /\ inputs' = [inputs EXCEPT ![s] = NoInput]
    /\ row' = [row EXCEPT ![s] = NoRow]
    /\ result' = [result EXCEPT ![s] = NoResult]
    /\ err' = [err EXCEPT ![s] = ""]
    /\ predicted' = [predicted EXCEPT ![s] = FALSE]
    /\ UNCHANGED <<modelFile, schemaFile, cache, lock, loads, fnVars>>

\* load_model_and_schema() through st.cache_resource: the first lookup
CacheLookup(s) ==
    /\ pc[s] = "load"
    /\ IF cache.valid
         THEN /\ handle' = [handle EXCEPT ![s] = cache]
              /\ pc' = [pc EXCEPT ![s] = "render"]
              /\ UNCHANGED missed
         ELSE /\ pc' = [pc EXCEPT ![s] = "wait_lock"]
              /\ missed' = [missed EXCEPT ![s] = TRUE]
              /\ UNCHANGED handle
    /\ UNCHANGED <<modelFile, schemaFile, cache, lock, loads, btn, inputs,
                   row, result, err, predicted, fnVars>>

\* A cache miss that computes as soon as it holds the lock
AcquireLock_no_recheck(s) ==
    /\ pc[s] = "wait_lock"
    /\ pc' = [pc EXCEPT ![s] = "body"]
    /\ UNCHANGED <<modelFile, schemaFile, cache, lock, loads, btn, missed,
                   handle, inputs, row, result, err, predicted, fnVars>>

\* On a miss the run takes the compute lock and looks the entry up again
AcquireLock(s) ==
    /\ pc[s] = "wait_lock"
    /\ lock = 0
    /\ IF cache.valid
         THEN /\ handle' = [handle EXCEPT ![s] = cache]
              /\ pc' = [pc EXCEPT ![s] = "render"]
              /\ UNCHANGED lock
         ELSE /\ lock' = s
              /\ pc' = [pc EXCEPT ![s] = "body"]
              /\ UNCHANGED handle
    /\ UNCHANGED <<modelFile, schemaFile, cache, loads, btn, missed, inputs,
                   row, result, err, predicted, fnVars>>

\* The value the body returns: joblib.load builds a new object on each call
Loaded == [valid |-> TRUE, obj |-> loads + 1, all_cols |-> schemaFile.all_cols]

\* The body without the check of MODEL_PATH
LoadBody_no_model_check(s) ==
    /\ pc[s] = "body"
    /\ lock' = IF lock = s THEN 0 ELSE lock
    /\ IF ~schemaFile.exists
         THEN /\ err' = [err EXCEPT ![s] = ERR_SCHEMA]
              /\ pc' = [pc EXCEPT ![s] = "stopped"]
              /\ UNCHANGED <<cache, loads, handle>>
         ELSE /\ cache' = Loaded
              /\ loads' = loads + 1
              /\ handle' = [handle EXCEPT ![s] = Loaded]
              /\ pc' = [pc EXCEPT ![s] = "render"]
              /\ UNCHANGED err
    /\ UNCHANGED <<modelFile, schemaFile, btn, missed, inputs, row, result,
                   predicted, fnVars>>

\* The body of load_model_and_schema, run under the compute lock; its
\* return value is written to the cache, st.stop() leaves the cache alone
LoadBody(s) ==
    /\ pc[s] = "body"
    /\ lock' = IF lock = s THEN 0 ELSE lock
    /\ IF ~modelFile
         THEN /\ err' = [err EXCEPT ![s] = ERR_MODEL]
              /\ pc' = [pc EXCEPT ![s] = "stopped"]
              /\ UNCHANGED <<cache, loads, handle>>
         ELSE IF ~schemaFile.exists
         THEN /\ err' = [err EXCEPT ![s] = ERR_SCHEMA]
              /\ pc' = [pc EXCEPT ![s] = "stopped"]
              /\ UNCHANGED <<cache, loads, handle>>
         ELSE /\ cache' = Loaded
              /\ loads' = loads + 1
              /\ handle' = [handle EXCEPT ![s] = Loaded]
              /\ pc' = [pc EXCEPT ![s] = "render"]
              /\ UNCHANGED err
    /\ UNCHANGED <<modelFile, schemaFile, btn, missed, inputs, row, result,
                   predicted, fnVars>>

\* if st.button("Predict Risk"): predict and display
ButtonHandler(s, I) ==
    IF btn[s]
      THEN /\ \E risk \in RiskVals : result' = [result EXCEPT ![s] = PredictionResult(risk, I)]
           /\ predicted' = [predicted EXCEPT ![s] = TRUE]
      ELSE UNCHANGED <<result, predicted>>

\* The rest of the script: read the widgets, build the row, handle the button
RenderPage(s) ==
    /\ pc[s] = "render"
    /\ \E I \in InputStates :
          /\ inputs' = [inputs EXCEPT ![s] = I]
          /\ row' = [row EXCEPT ![s] = AssembleRow(handle[s].all_cols, I)]
          /\ ButtonHandler(s, I)
    /\ pc' = [pc EXCEPT ![s] = "done"]
    /\ UNCHANGED <<modelFile, schemaFile, cache, lock, loads, btn, missed,
                   handle, err, fnVars>>

Next ==
    \/ SaveModelFile
    \/ SaveSchemaFile
    \/ \E s \in Sessions : StartCycle(s)
    \/ \E s \in Sessions : CacheLookup(s)
    \/ \E s \in Sessions : AcquireLock(s)
    \/ \E s \in Sessions : LoadBody(s)
    \/ \E s \in Sessions : RenderPage(s)

Spec == Init /\ [][Next]_vars

(***************************************************************************)
(* Harness for the helper functions: the inputs are drawn in the initial    *)
(* state and one call is made.                                              *)
(***************************************************************************)
Probs == 0..1000

\* Slider positions around every threshold, with both ends of each slider
AttendanceVals == {30, 55, 69, 70, 71, 75, 90, 95, 96, 98, 100}

HoursVals == {20, 25, 31, 32, 33, 34, 35, 36, 40, 45, 46, 50}

ZeroWeeksVals == 0..6

GapDaysVals == {0, 1, 7, 14, 20, 21, 22, 45}

NonpaidVals == {0, 1, 2, 4, 19, 20, 21, 40}

CycleIdle ==
    /\ modelFile = FALSE
    /\ schemaFile = NoFile
    /\ cache = NoCache
    /\ lock = 0
    /\ loads = 0
    /\ pc = [s \in Sessions |-> "idle"]
    /\ btn = [s \in Sessions |-> FALSE]
    /\ missed = [s \in Sessions |-> FALSE]
    /\ handle = [s \in Sessions |-> NoCache]
    /\ inputs = [s \in Sessions |-> NoInput]
    /\ row = [s \in Sessions |-> NoRow]
    /\ result = [s \in Sessions |-> NoResult]
    /\ err = [s \in Sessions |-> ""]
    /\ predicted = [s \in Sessions |-> FALSE]

InitConfidence ==
    /\ CycleIdle
    /\ fn_pc = "call"
    /\ fn_prob \in Probs
    /\ fn_conf = ""
    /\ fn_args = NoInput
    /\ fn_drivers = <<>>

CallConfidence ==
    /\ fn_pc = "call"
    /\ fn_conf' = get_confidence_label(fn_prob)
    /\ fn_pc' = "returned"
    /\ UNCHANGED <<fn_prob, fn_args, fn_drivers, cycleVars>>

NextConfidence == CallConfidence

SpecConfidence == InitConfidence /\ [][NextConfidence]_vars

InitDrivers ==
    /\ CycleIdle
    /\ fn_pc = "call"
    /\ fn_prob = 0
    /\ fn_conf = ""
    /\ \E a \in AttendanceVals, h \in HoursVals, z \in ZeroWeeksVals, g \in GapDaysVals, n \in NonpaidVals : fn_args = MkInput(a, h, z, g, n)
    /\ fn_drivers = <<>>

CallDrivers ==
    /\ fn_pc = "call"
    /\ fn_drivers' = get_driver_messages(fn_args.attendance_ratio, fn_args.avg_weekly_hours, fn_args.zero_weeks, fn_args.gap_days, fn_args.nonpaid_abs)
    /\ fn_pc' = "returned"
    /\ UNCHANGED <<fn_prob, fn_conf, fn_args, cycleVars>>

NextDrivers == CallDrivers

SpecDrivers == InitDrivers /\ [][NextDrivers]_vars

(***************************************************************************)
(* Properties of the feature row                                            *)
(***************************************************************************)
RowAssembled(s) == DOMAIN row[s] # {}

SchemaOf(s) == Range(handle[s].all_cols)

\* C1: the row assembled in a render cycle has exactly the schema's columns
\* as its keys: no schema column is missing, no other key is present.
RowCompleteness ==
    \A s \in Sessions : RowAssembled(s) => DOMAIN row[s] = SchemaOf(s)

\* C2: a role column ("Trade", "Dept") is a key of the assembled row only
\* if the schema has it, and then it holds the placeholder ("CARP", "FIELD").
ConditionalCategoricalFill ==
    \A s \in Sessions : RowAssembled(s) =>
        /\ "Trade" \in DOMAIN row[s] <=> "Trade" \in SchemaOf(s)
        /\ "Dept" \in DOMAIN row[s] <=> "Dept" \in SchemaOf(s)
        /\ "Trade" \in DOMAIN row[s] => row[s]["Trade"] = DEFAULT_TRADE
        /\ "Dept" \in DOMAIN row[s] => row[s]["Dept"] = DEFAULT_DEPT

\* C6: the five fixed columns of the assembled row hold the current slider
\* values whether or not (and wherever) the schema lists them, and every
\* schema column that is neither fixed nor a role column holds 0.
KnownColumnOverride ==
    \A s \in Sessions : RowAssembled(s) =>
        /\ FixedCols \subseteq DOMAIN row[s]
        /\ row[s]["attendance_ratio_lkbk"] = inputs[s].attendance_ratio
        /\ row[s]["avg_weekly_hours_lkbk"] = inputs[s].avg_weekly_hours
        /\ row[s]["zero_weeks_lkbk"] = inputs[s].zero_weeks
        /\ row[s]["gap_days_since_work"] = inputs[s].gap_days
        /\ row[s]["nonpaid_abs_hours_lkbk"] = inputs[s].nonpaid_abs
        /\ \A c \in SchemaOf(s) \ (FixedCols \cup RoleCols) :
              c \in DOMAIN row[s] /\ row[s][c] = 0

\* A row was assembled from a schema that lacks fixed columns, lists the
\* others out of order and has an unrecognised column, with non-zero inputs
KnownColumnOverrideWitness ==
    \E s \in Sessions :
        /\ RowAssembled(s)
        /\ ~(FixedCols \subseteq SchemaOf(s))
        /\ "overtime_hours_lkbk" \in SchemaOf(s)
        /\ inputs[s] = profile_options.HighRisk

(***************************************************************************)
(* Properties of the artifact cache and of the failing load                 *)
(***************************************************************************)
\* C7: the body of load_model_and_schema returns at most once per process,
\* also when several sessions miss the cache at the same time, and every
\* run past line 37 holds that one cached (model, schema).
ArtifactCacheOnce ==
    /\ loads <= 1
    /\ cache.valid => cache.obj = 1
    /\ \A s \in Sessions :
          /\ pc[s] \in {"render", "done"} => handle[s].valid
          /\ handle[s].valid => cache.valid /\ handle[s] = cache

\* Two sessions both missed the cache in their current run and both hold
\* the one loaded value
ArtifactCacheOnceWitness ==
    \E s, t \in Sessions :
        /\ s # t
        /\ missed[s] /\ missed[t]
        /\ pc[s] = "done" /\ pc[t] = "done"
        /\ handle[s].valid /\ handle[t] = handle[s]
        /\ loads = 1

BinaryLabelAndTrigger ==
    \A s \in Sessions :
        /\ predicted[s] => btn[s]
        /\ result[s].shown => predicted[s]
        /\ (pc[s] = "done" /\ btn[s]) => result[s].shown
        /\ result[s].shown =>
              /\ result[s].label \in {MSG_LEAVE, MSG_STAY}
              /\ result[s].label = MSG_LEAVE <=> result[s].risk >= 500
              /\ result[s].risk = 500 => result[s].confidence = "Low"

\* A run displayed "leave" for a probability of exactly 0.50
BinaryLabelWitness ==
    \E s \in Sessions :
        /\ predicted[s]
        /\ result[s].shown
        /\ result[s].risk = 500
        /\ result[s].label = MSG_LEAVE
        /\ result[s].confidence = "Low"

(***************************************************************************)
(* Properties of get_confidence_label                                       *)
(***************************************************************************)
InLowBand(p) == 450 <= p /\ p <= 550

InMediumBand(p) == 350 <= p /\ p <= 650

\* C4: for every probability in [0,1] the label is "Low" exactly in
\* [0.45, 0.55], "Medium" exactly in [0.35, 0.65] outside the Low band and
\* "High" elsewhere; one of the three labels is always returned, the band
\* ends are inclusive, and 0.50, 0.40, 0.20, 0.99 give Low, Medium, High,
\* High.
ConfidenceBands ==
    fn_pc = "returned" =>
        /\ fn_conf \in {"Low", "Medium", "High"}
        /\ fn_conf = "Low" <=> InLowBand(fn_prob)
        /\ fn_conf = "Medium" <=> (InMediumBand(fn_prob) /\ ~InLowBand(fn_prob))
        /\ fn_conf = "High" <=> ~InMediumBand(fn_prob)
        /\ fn_prob \in {450, 500, 550} => fn_conf = "Low"
        /\ fn_prob \in {350, 400, 650} => fn_conf = "Medium"
        /\ fn_prob \in {200, 990} => fn_conf = "High"

\* The call returned for a probability at an end of the Low band, which
\* lies inside the Medium band too
ConfidenceBandsWitness ==
    /\ fn_pc = "returned"
    /\ fn_prob = 450
    /\ fn_conf = "Low"

(***************************************************************************)
(* Properties of get_driver_messages                                        *)
(***************************************************************************)
Has(m) == \E i \in DOMAIN fn_drivers : fn_drivers[i] = m

\* The input a message speaks about, in parameter order
InputOf(m) ==
    CASE m \in {MSG_ATT_LOW, MSG_ATT_STRONG} -> 1
      [] m \in {MSG_HRS_FEWER, MSG_HRS_HEALTHY} -> 2
      [] m \in {MSG_ZW_NONE, MSG_ZW_SEVERAL, MSG_ZW_SOME} -> 3
      [] m \in {MSG_GAP_NONE, MSG_GAP_LONG} -> 4
      [] m \in {MSG_ABS_NONE, MSG_ABS_HIGH} -> 5
      [] OTHER -> 0

CountFor(k) == Cardinality({i \in DOMAIN fn_drivers : InputOf(fn_drivers[i]) = k})

\* C5: for every combination of inputs each message is present exactly
\* under its threshold condition, at most one message per input, in the
\* order attendance, hours, zero-weeks, gap-days, absence; hours of 35 give
\* the healthy-range message and hours of 32 give no hours message.
DriverThresholdTable ==
    fn_pc = "returned" =>
        /\ Has(MSG_ATT_LOW) <=> fn_args.attendance_ratio < 70
        /\ Has(MSG_ATT_STRONG) <=> fn_args.attendance_ratio > 95
        /\ Has(MSG_HRS_FEWER) <=> fn_args.avg_weekly_hours < 32
        /\ Has(MSG_HRS_HEALTHY) <=> (35 <= fn_args.avg_weekly_hours /\ fn_args.avg_weekly_hours <= 45)
        /\ Has(MSG_ZW_NONE) <=> fn_args.zero_weeks = 0
        /\ Has(MSG_ZW_SEVERAL) <=> fn_args.zero_weeks >= 3
        /\ Has(MSG_ZW_SOME) <=> fn_args.zero_weeks \in {1, 2}
        /\ Has(MSG_GAP_NONE) <=> fn_args.gap_days = 0
        /\ Has(MSG_GAP_LONG) <=> fn_args.gap_days > 21
        /\ Has(MSG_ABS_NONE) <=> fn_args.nonpaid_abs = 0
        /\ Has(MSG_ABS_HIGH) <=> fn_args.nonpaid_abs > 20
        /\ \A i \in DOMAIN fn_drivers : InputOf(fn_drivers[i]) \in 1..5
        /\ \A k \in 1..5 : CountFor(k) <= 1
        /\ \A i, j \in DOMAIN fn_drivers :
              i < j => InputOf(fn_drivers[i]) < InputOf(fn_drivers[j])
        /\ fn_args.avg_weekly_hours = 35 => Has(MSG_HRS_HEALTHY)
        /\ fn_args.avg_weekly_hours = 32 => ~Has(MSG_HRS_FEWER) /\ ~Has(MSG_HRS_HEALTHY)

\* The call returned for hours of exactly 32 with one message for each of
\* the four other inputs
DriverThresholdWitness ==
    /\ fn_pc = "returned"
    /\ fn_args.avg_weekly_hours = 32
    /\ Len(fn_drivers) = 4
    /\ ~Has(MSG_HRS_FEWER)

\* C10: the result is never empty: the zero-weeks block contributes exactly
\* one message, each other input none or one, so 1 to 5 messages in all.
DriversNeverEmpty ==
    fn_pc = "returned" =>
        /\ Len(fn_drivers) >= 1
        /\ Len(fn_drivers) <= 5
        /\ CountFor(3) = 1
        /\ \A k \in {1, 2, 4, 5} : CountFor(k) \in {0, 1}
        /\ Len(fn_drivers) = CountFor(1) + CountFor(2) + CountFor(3) + CountFor(4) + CountFor(5)

\* The call returned the zero-weeks message alone, from the else branch
DriversNeverEmptyWitness ==
    /\ fn_pc = "returned"
    /\ fn_args.zero_weeks = 2
    /\ fn_drivers = <<MSG_ZW_SOME>>

\* C3 as stated: the "High Risk (Disengaged Pattern)" inputs
\* (0.55, 25, 4, 21, 0) give exactly five messages: low attendance, fewer
\* hours, several zero weeks, long gap, no unpaid absence.
HighRiskFiveDrivers ==
    (fn_pc = "returned" /\ fn_args = profile_options.HighRisk) =>
        fn_drivers = <<MSG_ATT_LOW, MSG_HRS_FEWER, MSG_ZW_SEVERAL, MSG_GAP_LONG, MSG_ABS_NONE>>

\* C3 amended: the same inputs give exactly four messages: low attendance,
\* fewer hours, several zero weeks, no unpaid absence; gap_days of 21 is
\* not above 21 and gives no gap message.
HighRiskFourDrivers ==
    (fn_pc = "returned" /\ fn_args = profile_options.HighRisk) =>
        /\ Len(fn_drivers) = 4
        /\ fn_drivers = <<MSG_ATT_LOW, MSG_HRS_FEWER, MSG_ZW_SEVERAL, MSG_ABS_NONE>>
        /\ ~Has(MSG_GAP_LONG) /\ ~Has(MSG_GAP_NONE)

\* The call returned for the High Risk profile
HighRiskWitness ==
    /\ fn_pc = "returned"
    /\ fn_args = profile_options.HighRisk
    /\ Len(fn_drivers) > 0

====
